---- MODULE Spec2Model ----
(***************************************************************************)
(* State-machine model of src/diffusion/denoise_diffusion.py:             *)
(* DenoiseDiffusion (the base diffusion process) and DMDenoiseDiffusion    *)
(* (the trajectory variant).                                              *)
(*                                                                         *)
(* Numbers.  Floats are fixed-point integers with unit One (1.0 = One);    *)
(* products and square roots are rounded down to the grid.                 *)
(* Tensors.  x0, eps, mean, xt are [batch, sequence] tensors: a sequence   *)
(* (batch axis, axis 0) of sequences (axis 1) of numbers.  cond is a       *)
(* [batch, cond_dim] tensor.  t, std and the dropout mask hold one entry   *)
(* per batch element.  Python's None is the empty tuple.                   *)
(* Randomness (torch.randint, torch.randn_like, Bernoulli.sample) is an    *)
(* input of the loss actions, drawn with \E.                               *)
(***************************************************************************)
EXTENDS Integers, Sequences, FiniteSets, TLC

VARIABLES
    eps_model,   \* the noise predictor: [use_cond, state_dict]
    self,        \* the process object (NoObject until __init__ returns)
    ctor,        \* history: arguments and outcome of the constructor call
    cond_buf,    \* the caller's cond tensor object (None when it has none)
    results,     \* the results directory: [exists, files]
    last         \* history: the most recent call, its draws and its outcome

vars == <<eps_model, self, ctor, cond_buf, results, last>>

----------------------------------------------------------------------------
(* Bounds of the model *)

MaxT == 2
MaxBatch == 2
MaxSeq == 3
CondDim == 2

----------------------------------------------------------------------------
(* Values *)

One == 16
None == <<>>

ClassNames == {"DenoiseDiffusion", "DMDenoiseDiffusion"}
LossTypes == {"l1", "l2", "huber"}
BetaSchedules == {"linear", "cosine", "sigmoid"}
UncondProbs == {None, <<One \div 4>>}
FileNames == {"ckpt"}

Min(a, b) == IF a < b THEN a ELSE b
Max(a, b) == IF a > b THEN a ELSE b
Abs(a) == IF a < 0 THEN 0 - a ELSE a

\* a * b and sqrt(a) on the fixed-point grid
Mul(a, b) == (a * b) \div One
SqrtTable == [a \in 0..One |-> CHOOSE r \in 0..One : r * r <= a * One /\ (r + 1) * (r + 1) > a * One]
Sqrt(a) == SqrtTable[a]

RECURSIVE SumSeq(_)
SumSeq(s) == IF s = <<>> THEN 0 ELSE Head(s) + SumSeq(Tail(s))

\* x.shape[1:] of a [batch, sequence] tensor
TrailingShape(x) == <<Len(x[1])>>

----------------------------------------------------------------------------
(* utils.diffusion_utils and models.UNet: not part of the modelled file *)

beta_schedual_linear(T) == [i \in 1..T |-> (i * One) \div (T + 2)]
beta_schedual_cosine(T) == [i \in 1..T |-> Max(1, (i * i * One) \div ((T + 2) * (T + 2)))]

\* gather(consts, t, n_dim): consts[t] per batch element (t is 0-based)
gather(consts, t) == [b \in 1..Len(t) |-> consts[t[b] + 1]]

\* the predictor returns a tensor of the shape of xt
eps_model_call(xt, t, cond) == [b \in 1..Len(xt) |-> [s \in 1..Len(xt[b]) |-> Mul(xt[b][s], One \div 2)]]

----------------------------------------------------------------------------
(* DenoiseDiffusion.__init__ *)

\* a check of one direction only: use_cond without uncond_prob
CondConfigOneWay(uncond_prob, use_cond) == use_cond => (uncond_prob # None)

\* line 35: assert (uncond_prob is not None) == eps_model.use_cond
CondConfigOK(uncond_prob, use_cond) == (uncond_prob # None) = use_cond

\* line 37: dist.Bernoulli(probs = 1 - uncond_prob), only when use_cond
UncondMaskDist(uncond_prob, use_cond) ==
    IF use_cond THEN <<One - uncond_prob[1]>> ELSE None

\* lines 39-46
ScheduleKnown(beta_schedule) == beta_schedule \in {"linear", "cosine"}
Betas(beta_schedule, T) ==
    IF beta_schedule = "linear" THEN beta_schedual_linear(T)
    ELSE beta_schedual_cosine(T)

\* line 48: 1 - betas
Alphas(betas) == [i \in 1..Len(betas) |-> One - betas[i]]

\* line 49: torch.cumprod(alphas, dim=0)
RECURSIVE CumProd(_)
CumProd(a) ==
    IF Len(a) = 0 THEN <<>>
    ELSE IF Len(a) = 1 THEN a
    ELSE LET p == CumProd(SubSeq(a, 1, Len(a) - 1))
         IN  Append(p, Mul(p[Len(p)], a[Len(a)]))

\* alphas_bar taken as it is, with no leading 1 and no shift
AlphasBarNotShifted(alphas_bar) == alphas_bar

\* line 50: torch.cat([torch.ones(1), alphas_bar[:-1]])
AlphasBarPrev(alphas_bar) ==
    <<One>> \o SubSeq(alphas_bar, 1, Len(alphas_bar) - 1)

NoObject ==
    [exists |-> FALSE, cls |-> "", T |-> 0, loss_type |-> "", x_shape |-> None,
     beta_schedule |-> "", uncond_mask_dist |-> None, betas |-> <<>>,
     alphas |-> <<>>, alphas_bar |-> <<>>, alphas_bar_prev |-> <<>>]

NewObject(cls, uncond_prob, T, loss_type, beta_schedule) ==
    LET betas == Betas(beta_schedule, T)
        alphas == Alphas(betas)
        alphas_bar == CumProd(alphas)
    IN  [exists |-> TRUE, cls |-> cls, T |-> T, loss_type |-> loss_type,
         x_shape |-> None, beta_schedule |-> beta_schedule,
         uncond_mask_dist |-> UncondMaskDist(uncond_prob, eps_model.use_cond),
         betas |-> betas, alphas |-> alphas, alphas_bar |-> alphas_bar,
         alphas_bar_prev |-> AlphasBarPrev(alphas_bar)]

\* the exception __init__ raises, "" when it returns
InitError(uncond_prob, beta_schedule) ==
    IF ~CondConfigOK(uncond_prob, eps_model.use_cond) THEN "AssertionError"
    ELSE IF ~ScheduleKnown(beta_schedule) THEN "ValueError"
    ELSE ""

NoCtor ==
    [called |-> FALSE, cls |-> "", uncond_prob |-> None, T |-> 0,
     loss_type |-> "", beta_schedule |-> "", error |-> ""]

NoCall ==
    [op |-> "", error |-> "", x0 |-> None, t |-> None, eps |-> None,
     noisy |-> None, horizon |-> None, cond_arg |-> None, same_tensor |-> FALSE,
     cond_seen |-> FALSE, cond_cat |-> None, mask |-> None,
     called |-> FALSE, xt |-> None, cond |-> None, loss |-> None]

Construct(cls, uncond_prob, T, loss_type, beta_schedule) ==
    /\ ~ctor.called
    /\ LET err == InitError(uncond_prob, beta_schedule)
       IN  /\ ctor' = [called |-> TRUE, cls |-> cls, uncond_prob |-> uncond_prob,
                       T |-> T, loss_type |-> loss_type,
                       beta_schedule |-> beta_schedule, error |-> err]
           /\ self' = IF err = "" THEN NewObject(cls, uncond_prob, T, loss_type, beta_schedule)
                      ELSE NoObject
    /\ UNCHANGED <<eps_model, cond_buf, results, last>>

----------------------------------------------------------------------------
(* DenoiseDiffusion.q_xt_x0 and the draws of a loss call *)

\* lines 61-69: mean = sqrt(alpha_bar) * x0, std = sqrt(1 - alpha_bar)
q_xt_x0(x0, t) ==
    LET alpha_bar == gather(self.alphas_bar, t)
    IN  [mean |-> [b \in 1..Len(x0) |->
                     [s \in 1..Len(x0[b]) |-> Mul(Sqrt(alpha_bar[b]), x0[b][s])]],
         std  |-> [b \in 1..Len(x0) |-> Sqrt(One - alpha_bar[b])]]

\* lines 81, 137: xt = mean + std * eps
Noised(mean, std, eps) ==
    [b \in 1..Len(mean) |->
       [s \in 1..Len(mean[b]) |-> mean[b][s] + Mul(std[b], eps[b][s])]]

\* the assignment without its guard
SetXShapeAlways(x_shape, x0) == TrailingShape(x0)

\* lines 75, 131: if self.x_shape is None: self.x_shape = x0.shape[1:]
SetXShape(x_shape, x0) == IF x_shape = None THEN TrailingShape(x0) ELSE x_shape

\* the stop index of the Python slice [:horizon] on an axis of length n
SliceStop(horizon, n) ==
    IF horizon = None THEN n
    ELSE IF horizon[1] >= 0 THEN Min(horizon[1], n)
    ELSE Max(n + horizon[1], 0)

\* the slice taken on the batch axis: xt[:preserved_horizon] = x0[:preserved_horizon]
PreserveBatchAxis(xt, x0, horizon) ==
    [b \in 1..Len(xt) |->
       [s \in 1..Len(xt[b]) |->
          IF b <= SliceStop(horizon, Len(xt)) THEN x0[b][s] ELSE xt[b][s]]]

\* line 139: xt[:, :preserved_horizon] = x0[:, :preserved_horizon]
Preserve(xt, x0, horizon) ==
    [b \in 1..Len(xt) |->
       [s \in 1..Len(xt[b]) |->
          IF s <= SliceStop(horizon, Len(xt[b])) THEN x0[b][s] ELSE xt[b][s]]]

\* a flag of 0 in place of 1
CatZeros(cond) == [b \in 1..Len(cond) |-> Append(cond[b], 0)]

\* line 140: torch.cat([cond, torch.ones(batch_size, 1)], dim=-1), a new tensor
CatOnes(cond) == [b \in 1..Len(cond) |-> Append(cond[b], One)]

\* one bit, that of the first batch element, applied to every row
MulFirstBit(cond, mask) ==
    [b \in 1..Len(cond) |-> [j \in 1..Len(cond[b]) |-> Mul(cond[b][j], mask[1])]]

\* lines 86, 145: cond *= uncond_mask, the mask broadcast along cond_dim
MulMask(cond, mask) ==
    [b \in 1..Len(cond) |-> [j \in 1..Len(cond[b]) |-> Mul(cond[b][j], mask[b])]]

\* cond = cond * uncond_mask: a new tensor, the caller's left as it was
CallerCondUntouched(cond, mask) == cond

\* line 86: the *= of the base class writes into the tensor the caller passed
CallerCondAfterMask(cond, mask) == MulMask(cond, mask)

\* lines 89-92, 148-151: F.l1_loss / F.mse_loss with mean reduction
Numel(x) == Len(x) * Len(x[1])
l1_loss(pred, eps) ==
    SumSeq([b \in 1..Len(eps) |->
              SumSeq([s \in 1..Len(eps[b]) |-> Abs(pred[b][s] - eps[b][s])])])
      \div Numel(eps)
mse_loss(pred, eps) ==
    SumSeq([b \in 1..Len(eps) |->
              SumSeq([s \in 1..Len(eps[b]) |->
                        Mul(pred[b][s] - eps[b][s], pred[b][s] - eps[b][s])])])
      \div Numel(eps)

\* lines 89-94, 148-153
LossKnown(loss_type) == loss_type \in {"l1", "l2"}
Reduce(loss_type, pred, eps) ==
    IF loss_type = "l1" THEN <<l1_loss(pred, eps)>>
    ELSE IF loss_type = "l2" THEN <<mse_loss(pred, eps)>>
    ELSE None

----------------------------------------------------------------------------
(* Inputs of a loss call *)

X0Value(b, s) == (((2 * b + 3 * s) % 5) - 2) * (One \div 2)
EpsValue(k, b, s) == (((2 * k + b + 2 * s) % 3) - 1) * One
X0Tensor(B, L) == [b \in 1..B |-> [s \in 1..L |-> X0Value(b, s)]]
EpsTensor(k, B, L) == [b \in 1..B |-> [s \in 1..L |-> EpsValue(k, b, s)]]
FreshCond(B) == [b \in 1..B |-> [j \in 1..CondDim |-> (b + j) * (One \div 4)]]

\* torch.randint(self.T, (batch_size,)): equal and staggered timesteps
Timesteps(B) ==
    {[b \in 1..B |-> (t0 + d * (b - 1)) % self.T] :
        t0 \in 0..(self.T - 1), d \in IF B = 1 THEN {0} ELSE {0, 1}}
\* Bernoulli.sample((batch_size, 1)): one keep bit per batch element
Masks(B) == [1..B -> {0, One}]
\* the draws a call can make: none when the predictor takes no cond
Draws(B) == IF eps_model.use_cond THEN Masks(B) ELSE {None}
\* preserved_horizon: None, and the integers around both ends of the axis
Horizons(L) == {None} \cup {<<h>> : h \in {0 - 1, 0, 1, L - 1, L, L + 1}}
DefaultHorizon == <<1>>

\* the cond argument: absent, the tensor the caller already holds, or a new one
NoCond == [kind |-> "none", tensor |-> None]
SameCond == IF cond_buf = None THEN {} ELSE {[kind |-> "same", tensor |-> cond_buf]}
NewCond(B) == [kind |-> "new", tensor |-> FreshCond(B)]

\* x0 has the batch size of the cond it comes with
BatchSizes(arg) == IF arg.kind = "none" THEN 1..MaxBatch ELSE {Len(arg.tensor)}

----------------------------------------------------------------------------
(* DenoiseDiffusion.loss, lines 71-96 *)

BaseLossResult(x0, arg, t, eps, mask) ==
    LET q == q_xt_x0(x0, t)
        xt == Noised(q.mean, q.std, eps)
        use_cond == eps_model.use_cond
        failed == use_cond /\ arg.tensor = None
        cond == IF use_cond /\ ~failed THEN MulMask(arg.tensor, mask) ELSE arg.tensor
        error == IF failed THEN "TypeError"
                 ELSE IF ~LossKnown(self.loss_type) THEN "ValueError"
                 ELSE ""
    IN  [op |-> "loss", error |-> error, x0 |-> x0, t |-> t, eps |-> eps,
         noisy |-> xt, horizon |-> None,
         cond_arg |-> arg.tensor, same_tensor |-> (arg.kind = "same"),
         cond_seen |-> use_cond, cond_cat |-> None,
         mask |-> IF use_cond THEN mask ELSE None,
         called |-> ~failed,
         xt |-> IF failed THEN None ELSE xt,
         cond |-> IF failed THEN None ELSE cond,
         loss |-> IF error = "" THEN Reduce(self.loss_type, eps_model_call(xt, t, cond), eps)
                  ELSE None]

\* the tensor object the caller holds once the call is over
BaseCallerCond(arg, mask) ==
    IF arg.kind = "none" THEN cond_buf
    ELSE IF eps_model.use_cond THEN CallerCondAfterMask(arg.tensor, mask)
    ELSE arg.tensor

Loss(k, arg, B, L, t, mask) ==
    /\ self.exists
    /\ self.cls = "DenoiseDiffusion"
    /\ LET x0 == X0Tensor(B, L)
           eps == EpsTensor(k, B, L)
       IN  /\ self' = [self EXCEPT !.x_shape = SetXShape(self.x_shape, x0)]
           /\ last' = BaseLossResult(x0, arg, t, eps, mask)
           /\ cond_buf' = BaseCallerCond(arg, mask)
    /\ UNCHANGED <<eps_model, ctor, results>>

----------------------------------------------------------------------------
(* DMDenoiseDiffusion.loss, lines 126-155 *)

DMLossResult(x0, arg, horizon, t, eps, mask) ==
    LET q == q_xt_x0(x0, t)
        noisy == Noised(q.mean, q.std, eps)
        xt == Preserve(noisy, x0, horizon)
        use_cond == eps_model.use_cond
        failed == arg.tensor = None
        cat == IF failed THEN None ELSE CatOnes(arg.tensor)
        cond == IF use_cond /\ ~failed THEN MulMask(cat, mask) ELSE cat
        error == IF failed THEN "TypeError"
                 ELSE IF ~LossKnown(self.loss_type) THEN "ValueError"
                 ELSE ""
    IN  [op |-> "dm_loss", error |-> error, x0 |-> x0, t |-> t, eps |-> eps,
         noisy |-> noisy, horizon |-> horizon,
         cond_arg |-> arg.tensor, same_tensor |-> (arg.kind = "same"),
         cond_seen |-> TRUE, cond_cat |-> cat,
         mask |-> IF use_cond /\ ~failed THEN mask ELSE None,
         called |-> ~failed,
         xt |-> IF failed THEN None ELSE xt,
         cond |-> IF failed THEN None ELSE cond,
         loss |-> IF error = "" THEN Reduce(self.loss_type, eps_model_call(xt, t, cond), eps)
                  ELSE None]

\* torch.cat made a new tensor: the *= of line 145 never reaches the caller's
DMCallerCond(arg) == IF arg.kind = "none" THEN cond_buf ELSE arg.tensor

DMLoss(k, arg, B, L, horizon, t, mask) ==
    /\ self.exists
    /\ self.cls = "DMDenoiseDiffusion"
    /\ LET x0 == X0Tensor(B, L)
           eps == EpsTensor(k, B, L)
       IN  /\ self' = [self EXCEPT !.x_shape = SetXShape(self.x_shape, x0)]
           /\ last' = DMLossResult(x0, arg, horizon, t, eps, mask)
           /\ cond_buf' = DMCallerCond(arg)
    /\ UNCHANGED <<eps_model, ctor, results>>

----------------------------------------------------------------------------
(* save and load, lines 98-105 *)

NoResults == [exists |-> FALSE, files |-> [f \in FileNames |-> None]]

Save(filename) ==
    /\ self.exists
    /\ results' = [exists |-> TRUE,
                   files |-> [results.files EXCEPT ![filename] = <<eps_model.state_dict>>]]
    /\ last' = [NoCall EXCEPT !.op = "save"]
    /\ UNCHANGED <<eps_model, self, ctor, cond_buf>>

Load(filename) ==
    /\ self.exists
    /\ IF results.files[filename] = None
       THEN /\ last' = [NoCall EXCEPT !.op = "load", !.error = "FileNotFoundError"]
            /\ UNCHANGED eps_model
       ELSE /\ last' = [NoCall EXCEPT !.op = "load"]
            /\ eps_model' = [eps_model EXCEPT !.state_dict = results.files[filename][1]]
    /\ UNCHANGED <<self, ctor, cond_buf, results>>

DoSave == \E filename \in FileNames : Save(filename)

DoLoad == \E filename \in FileNames : Load(filename)

----------------------------------------------------------------------------
(* The specifications *)

Init ==
    /\ eps_model \in {[use_cond |-> u, state_dict |-> 0] : u \in BOOLEAN}
    /\ self = NoObject
    /\ ctor = NoCtor
    /\ cond_buf = None
    /\ results = NoResults
    /\ last = NoCall

\* Spec: the first loss call on a new object, with every input.  The
\* constructor takes the defaults of lines 21-24 for loss_type and
\* beta_schedule.
ConstructDefaults ==
    \E cls \in ClassNames, uncond_prob \in UncondProbs, T \in 1..MaxT :
        Construct(cls, uncond_prob, T, "l2", "cosine")

LossAnyInput ==
    /\ self.x_shape = None
    /\ \E k \in {0, 1}, B \in 1..MaxBatch, L \in 1..MaxSeq :
        \E arg \in {NoCond, NewCond(B)}, t \in Timesteps(B), mask \in Draws(B) :
          Loss(k, arg, B, L, t, mask)

DMLossAnyInput ==
    /\ self.x_shape = None
    /\ \E k \in {0, 1}, B \in 1..MaxBatch, L \in 1..MaxSeq :
        \E arg \in {NoCond, NewCond(B)}, horizon \in Horizons(L),
         t \in Timesteps(B), mask \in Draws(B) :
          DMLoss(k, arg, B, L, horizon, t, mask)

Next == ConstructDefaults \/ LossAnyInput \/ DMLossAnyInput

Spec == Init /\ [][Next]_vars

\* SpecSeq: sequences of calls on one object and one caller.  A loss call
\* takes no cond, the tensor the caller holds or a new one, and any shape.
LossAnyCond ==
    \E arg \in {NoCond} \cup SameCond \cup {NewCond(B) : B \in 1..MaxBatch},
       L \in {MaxSeq - 1, MaxSeq} :
      \E B \in BatchSizes(arg) :
        \E mask \in Draws(B) :
            Loss(0, arg, B, L, [b \in 1..B |-> 0], mask)

DMLossAnyCond ==
    \E arg \in {NoCond} \cup SameCond \cup {NewCond(B) : B \in 1..MaxBatch},
       L \in {MaxSeq - 1, MaxSeq} :
      \E B \in BatchSizes(arg) :
        \E mask \in Draws(B) :
            DMLoss(0, arg, B, L, DefaultHorizon, [b \in 1..B |-> 0], mask)

NextSeq == ConstructDefaults \/ LossAnyCond \/ DMLossAnyCond \/ DoSave \/ DoLoad

SpecSeq == Init /\ [][NextSeq]_vars

\* SpecConfig: every constructor argument, and short calls on the object.
ConstructAny ==
    \E cls \in ClassNames, uncond_prob \in UncondProbs, T \in 1..MaxT,
       loss_type \in LossTypes, beta_schedule \in BetaSchedules :
        Construct(cls, uncond_prob, T, loss_type, beta_schedule)

LossOne ==
    \E arg \in {NoCond, NewCond(1)}, t \in Timesteps(1), mask \in Draws(1) :
        Loss(0, arg, 1, MaxSeq, t, mask)

DMLossOne ==
    \E arg \in {NoCond, NewCond(1)}, t \in Timesteps(1), mask \in Draws(1) :
        DMLoss(0, arg, 1, MaxSeq, DefaultHorizon, t, mask)

NextConfig == ConstructAny \/ LossOne \/ DMLossOne \/ DoSave \/ DoLoad

SpecConfig == Init /\ [][NextConfig]_vars

----------------------------------------------------------------------------
(* Properties *)

IsLoss(l) == l.op \in {"loss", "dm_loss"}
ZeroRow(row) == \A j \in 1..Len(row) : row[j] = 0
ZeroRowOf(row) == [j \in 1..Len(row) |-> 0]
SeqLen(l) == Len(l.x0[1])

\* C1: with use_cond False, a loss call of either class with cond absent
\* returns a loss, never reads or operates on cond before the predictor is
\* invoked, and draws no dropout mask.  (Spec: loss_type is l2.)
C1_UnconditionalNeedsNoCond ==
    (IsLoss(last) /\ ~eps_model.use_cond /\ last.cond_arg = None)
        => (last.error = "" /\ last.loss # None /\ ~last.cond_seen /\ last.mask = None)

\* C2: in DMDenoiseDiffusion.loss with 0 < preserved_horizon < sequence
\* length, the xt given to the predictor equals x0 at each of the first
\* preserved_horizon positions of axis 1, and mean + std * eps at every other
\* position, for every batch element, timestep and noise draw.
C2_PrefixPreserved ==
    (last.op = "dm_loss" /\ last.called /\ last.horizon # None
       /\ 0 < last.horizon[1] /\ last.horizon[1] < SeqLen(last))
        => \A b \in 1..Len(last.x0) : \A s \in 1..SeqLen(last) :
             LET alpha_bar == self.alphas_bar[last.t[b] + 1]
                 mean == Mul(Sqrt(alpha_bar), last.x0[b][s])
                 std == Sqrt(One - alpha_bar)
             IN  /\ last.t[b] \in 0..(self.T - 1)
                 /\ last.xt[b][s] = IF s <= last.horizon[1] THEN last.x0[b][s]
                                    ELSE mean + Mul(std, last.eps[b][s])

\* a call whose overwrite changed xt and whose tail is noised
C2_Witness ==
    /\ last.op = "dm_loss" /\ last.called /\ last.horizon = <<2>> /\ SeqLen(last) = 3
    /\ Len(last.x0) = 2
    /\ \E b \in 1..2 : last.noisy[b][1] # last.x0[b][1]
    /\ \E b \in 1..2 : last.xt[b][3] # last.x0[b][3]

\* C3: in DMDenoiseDiffusion.loss the cond given to the predictor has
\* cond_dim + 1 components per batch element; the added last component is 1
\* before masking, and after masking 1 for a kept and 0 for a dropped element.
C3_FlagAppended ==
    (last.op = "dm_loss" /\ last.called)
        => \A b \in 1..Len(last.cond) :
             LET n == Len(last.cond_arg[b])
             IN  /\ Len(last.cond[b]) = n + 1
                 /\ Len(last.cond_cat[b]) = n + 1
                 /\ last.cond_cat[b][n + 1] = One
                 /\ last.cond[b][n + 1] =
                      IF last.mask = None THEN One
                      ELSE IF last.mask[b] = One THEN One ELSE 0

\* a call that kept one batch element and dropped the other
C3_Witness ==
    /\ last.op = "dm_loss" /\ last.called /\ last.mask = <<One, 0>>
    /\ last.cond[1][CondDim + 1] = One /\ last.cond[2][CondDim + 1] = 0

\* C4: the constructor fails on the conditioning check exactly when
\* (uncond_prob is given) differs from use_cond; when it fails, for this or
\* another reason, no object with schedule constants exists.
C4_CondConfigChecked ==
    ctor.called =>
        /\ (ctor.error = "AssertionError")
             <=> ((ctor.uncond_prob # None) # eps_model.use_cond)
        /\ (ctor.error # "") => (~self.exists /\ self.alphas_bar = <<>>)
        /\ (ctor.error = "") => (self.exists /\ Len(self.alphas_bar) = ctor.T)

\* a construction refused for want of uncond_prob
C4_Witness ==
    /\ ctor.called /\ ctor.error = "AssertionError"
    /\ ctor.uncond_prob = None /\ eps_model.use_cond /\ ~self.exists

\* C5: with use_cond True a loss call draws one keep bit per batch element,
\* and each cond row given to the predictor is the row that entered the
\* masking step (bit 1) or zero in every component (bit 0).
C5_WholeRowDropout ==
    (IsLoss(last) /\ last.called /\ eps_model.use_cond)
        => LET entering == IF last.op = "loss" THEN last.cond_arg ELSE last.cond_cat
           IN  /\ Len(last.mask) = Len(last.x0)
               /\ Len(last.cond) = Len(last.x0)
               /\ \A b \in 1..Len(last.x0) :
                    \/ last.mask[b] = One /\ last.cond[b] = entering[b]
                    \/ last.mask[b] = 0 /\ last.cond[b] = ZeroRowOf(entering[b])

\* a call that dropped the first batch element and kept the second
C5_Witness ==
    /\ IsLoss(last) /\ last.called /\ eps_model.use_cond
    /\ last.mask = <<0, One>>
    /\ ZeroRow(last.cond[1]) /\ ~ZeroRow(last.cond[2])

\* C6: an object with a loss kind other than l1, l2 is constructed without
\* error, and every loss call on it whose cond is given whenever the
\* predictor takes one fails with the ValueError of the loss kind and
\* returns no loss; with l1 or l2 that error is never raised.
C6_UnknownLossKindFailsEachCall ==
    /\ (ctor.called /\ CondConfigOK(ctor.uncond_prob, eps_model.use_cond)
          /\ ctor.beta_schedule \in {"linear", "cosine"})
         => (ctor.error = "" /\ self.exists /\ self.loss_type = ctor.loss_type)
    /\ (IsLoss(last) /\ (eps_model.use_cond => last.cond_arg # None))
         => IF self.loss_type \in {"l1", "l2"}
            THEN last.error # "ValueError"
            ELSE last.error = "ValueError" /\ last.loss = None

\* C7: x_shape is None after construction, the first loss call sets it to
\* the trailing shape of its x0, and no later loss, save or load call changes
\* it, whatever the shape of the x0 it is given.
C7_ShapeStep ==
    /\ (~self.exists /\ self'.exists) => self'.x_shape = None
    /\ (self.exists /\ self.x_shape = None /\ IsLoss(last'))
         => self'.x_shape = TrailingShape(last'.x0)
    /\ (self.exists /\ self.x_shape # None) => self'.x_shape = self.x_shape
    /\ (self.exists /\ ~IsLoss(last')) => self'.x_shape = self.x_shape
C7_ShapeFixedOnce == [][C7_ShapeStep]_vars

\* a later call with another trailing shape, a save having come before
C7_Witness ==
    /\ self.exists /\ IsLoss(last) /\ results.exists
    /\ self.x_shape = <<MaxSeq>> /\ TrailingShape(last.x0) = <<MaxSeq - 1>>

RECURSIVE ProductOfAlphas(_, _)
ProductOfAlphas(betas, t) ==
    IF t = 0 THEN One ELSE Mul(ProductOfAlphas(betas, t - 1), One - betas[t])

\* C8: alphas_bar_prev has length T, starts with 1.0 and continues with
\* alphas_bar shifted by one step, alphas_bar[t] being the product of
\* 1 - beta over the steps up to t; no later call changes these constants.
C8_AlphasBarPrev ==
    self.exists =>
        /\ self.T = ctor.T
        /\ self.betas = Betas(ctor.beta_schedule, ctor.T)
        /\ Len(self.alphas_bar) = self.T
        /\ \A t \in 1..self.T : self.alphas_bar[t] = ProductOfAlphas(self.betas, t)
        /\ Len(self.alphas_bar_prev) = self.T
        /\ self.alphas_bar_prev[1] = One
        /\ \A t \in 2..self.T : self.alphas_bar_prev[t] = self.alphas_bar[t - 1]

\* an object of more than one step, after a loss call that followed a save
C8_Witness ==
    /\ self.exists /\ self.T = MaxT /\ MaxT > 1
    /\ IsLoss(last) /\ last.called /\ results.exists
    /\ self.alphas_bar_prev[2] # self.alphas_bar[2]

\* C9: a DMDenoiseDiffusion.loss call with preserved_horizon <= 0 or
\* preserved_horizon >= sequence length fails before the predictor is invoked.
C9_HorizonRangeEnforced ==
    (last.op = "dm_loss" /\ last.horizon # None
       /\ (last.horizon[1] <= 0 \/ last.horizon[1] >= SeqLen(last)))
        => ~last.called

\* C10: DenoiseDiffusion.loss with use_cond True leaves in the caller's cond
\* tensor each row times its keep bit, so that a row once dropped stays zero
\* in every later call given the same tensor; DMDenoiseDiffusion.loss leaves
\* the caller's tensor as it was.
C10_CallerCondStep ==
    LET l == last'
    IN  /\ (l.op = "loss" /\ l.called /\ eps_model.use_cond)
             => /\ cond_buf' = [b \in 1..Len(l.cond_arg) |->
                                  [j \in 1..Len(l.cond_arg[b]) |->
                                     Mul(l.cond_arg[b][j], l.mask[b])]]
                /\ l.same_tensor =>
                     /\ l.cond_arg = cond_buf
                     /\ \A b \in 1..Len(cond_buf) :
                          ZeroRow(cond_buf[b]) => ZeroRow(cond_buf'[b]) /\ ZeroRow(l.cond[b])
        /\ (l.op = "dm_loss" /\ l.called)
             => /\ cond_buf' = l.cond_arg
                /\ l.same_tensor => cond_buf' = cond_buf
C10_InPlaceMask == [][C10_CallerCondStep]_vars

\* a row dropped by an earlier call and kept by this one is still zero
C10_Witness ==
    /\ last.op = "loss" /\ last.called /\ last.same_tensor
    /\ \E b \in 1..Len(last.mask) :
         last.mask[b] = One /\ ZeroRow(last.cond_arg[b]) /\ ZeroRow(cond_buf[b])

====
